---- MODULE Spec2Model ----
(***************************************************************************)
(* A model of main.py: the sitemap fetcher with its local cache, the URL   *)
(* extraction, the product JSON fetch loop and the JSON prettifier.        *)
(*                                                                         *)
(* Strings are sequences of one-character strings, so that the regular     *)
(* expression search, str.split, str.endswith and the os.path functions    *)
(* are computed character by character as the code computes them.          *)
(***************************************************************************)
EXTENDS Integers, Sequences, FiniteSets, TLC

(***************************************************************************)
(* String literals of the source.                                          *)
(***************************************************************************)
\* line 116: re.compile("https://futuresfins.com/products/.*")
PRODUCT_RE ==
  <<"h","t","t","p","s",":","/","/","f","u","t","u","r","e","s","f","i","n","s",".","c","o","m","/","p","r","o","d","u","c","t","s","/",".","*">>

\* line 89: the directory part of f"products/{product_name}.json"
products_prefix == <<"p","r","o","d","u","c","t","s","/">>

\* the directory the fetch stage writes into, as the directory to scan
products_dir_flat == <<"p","r","o","d","u","c","t","s","/">>

\* line 141: products_dir = 'products/pretty/'
products_dir == <<"p","r","o","d","u","c","t","s","/","p","r","e","t","t","y","/">>

\* lines 80, 89, 144: '.json'
dot_json == <<".","j","s","o","n">>

\* lines 54, 144: '-pretty.json'
pretty_suffix == <<"-","p","r","e","t","t","y",".","j","s","o","n">>

(***************************************************************************)
(* Python string helpers.                                                  *)
(***************************************************************************)
\* s[i:] for a 1-based i
Drop(s, i) == SubSeq(s, i, Len(s))

\* str.endswith
endswith(s, suf) ==
  /\ Len(suf) <= Len(s)
  /\ SubSeq(s, Len(s) - Len(suf) + 1, Len(s)) = suf

\* str.startswith
startswith(s, pre) ==
  /\ Len(pre) <= Len(s)
  /\ SubSeq(s, 1, Len(pre)) = pre

\* str.rfind(c), 1-based, 0 when c does not occur
rfind(s, c) ==
  LET hits == {i \in 1..Len(s) : s[i] = c}
  IN  IF hits = {} THEN 0 ELSE CHOOSE i \in hits : \A j \in hits : j <= i

\* product_url.split('/')[-1]: everything after the last '/'
last_segment(s) == Drop(s, rfind(s, "/") + 1)

(***************************************************************************)
(* re: search of a pattern made of literal characters, '.' (any character  *)
(* but a newline) and '*' (zero or more of the preceding item), anywhere   *)
(* in the text; bs4 applies a compiled pattern to a string with .search.   *)
(***************************************************************************)
re_char(c, ch) == IF c = "." THEN ch # "\n" ELSE c = ch

RECURSIVE re_here(_, _)
RECURSIVE re_star(_, _, _)
re_here(p, t) ==
  IF p = <<>> THEN TRUE
  ELSE IF Len(p) >= 2 /\ p[2] = "*" THEN re_star(p[1], Drop(p, 3), t)
  ELSE IF t # <<>> /\ re_char(p[1], t[1]) THEN re_here(Tail(p), Tail(t))
  ELSE FALSE

re_star(c, p, t) ==
  \/ re_here(p, t)
  \/ t # <<>> /\ re_char(c, t[1]) /\ re_star(c, p, Tail(t))

re_search(p, t) == \E i \in 1..(Len(t) + 1) : re_here(p, Drop(t, i))

(***************************************************************************)
(* URL extraction, lines 113-119.  A sitemap document is the sequence of   *)
(* its text nodes in document order, which is what the parse of line 113   *)
(* hands to find_all.                                                      *)
(***************************************************************************)
\* line 117: tag.text of a text node is the node's own string
node_text(tag) == tag

\* the extraction with each URL kept once, at its first place
RECURSIVE extract_urls_unique(_)
extract_urls_unique(doc) ==
  IF doc = <<>> THEN <<>>
  ELSE LET rest == extract_urls_unique(SubSeq(doc, 1, Len(doc) - 1))
           last == doc[Len(doc)]
       IN  IF re_search(PRODUCT_RE, last) /\ (\A k \in 1..Len(rest) : rest[k] # last)
           THEN Append(rest, node_text(last))
           ELSE rest

\* lines 116-117: the text nodes the pattern is found in, in document
\* order, each mapped to its text
RECURSIVE extract_urls(_)
extract_urls(doc) ==
  IF doc = <<>> THEN <<>>
  ELSE IF re_search(PRODUCT_RE, Head(doc))
       THEN <<node_text(Head(doc))>> \o extract_urls(Tail(doc))
       ELSE extract_urls(Tail(doc))

(***************************************************************************)
(* os.path (posixpath).                                                    *)
(***************************************************************************)
\* os.path.basename: everything after the last '/'
basename(p) == Drop(p, rfind(p, "/") + 1)

\* str.rstrip('/')
RECURSIVE rstrip_slash(_)
rstrip_slash(s) ==
  IF s # <<>> /\ s[Len(s)] = "/" THEN rstrip_slash(SubSeq(s, 1, Len(s) - 1))
  ELSE s

\* os.path.dirname: the head up to the last '/', its trailing slashes
\* stripped unless it is made of slashes only
dirname(p) ==
  LET head == SubSeq(p, 1, rfind(p, "/"))
  IN  IF head # <<>> /\ (\E k \in 1..Len(head) : head[k] # "/")
      THEN rstrip_slash(head)
      ELSE head

\* os.path.splitext: split at the last '.', unless that dot is one of the
\* leading dots of the last component
splitext(p) ==
  LET sepIndex == rfind(p, "/")
      dotIndex == rfind(p, ".")
  IN  IF /\ dotIndex > sepIndex
         /\ \E k \in (sepIndex + 1)..(dotIndex - 1) : p[k] # "."
      THEN <<SubSeq(p, 1, dotIndex - 1), Drop(p, dotIndex)>>
      ELSE <<p, <<>>>>

\* os.path.join(a, b)
path_join(a, b) ==
  IF b # <<>> /\ b[1] = "/" THEN b
  ELSE IF a = <<>> \/ a[Len(a)] = "/" THEN a \o b
  ELSE a \o <<"/">> \o b

(***************************************************************************)
(* json.load and json.dump(indent=2), on the JSON documents made of        *)
(* arrays and unsigned integers.  A parsed value is a record               *)
(* [k, lit, items]: k = "num" with its digits in lit, or k = "list" with   *)
(* its elements in items.                                                  *)
(***************************************************************************)
\* line 58: indent=2
JSON_INDENT == 2

json_ws == {" ", "\n", "\t", "\r"}
json_digit == {"0", "1", "2", "3", "4", "5", "6", "7", "8", "9"}

json_fail == [ok |-> FALSE, val |-> [k |-> "none", lit |-> <<>>, items |-> <<>>], next |-> 0]
json_ok(v, n) == [ok |-> TRUE, val |-> v, next |-> n]
json_num(d) == [k |-> "num", lit |-> d, items |-> <<>>]
json_list(xs) == [k |-> "list", lit |-> <<>>, items |-> xs]

RECURSIVE skip_ws(_, _)
skip_ws(t, i) == IF i <= Len(t) /\ t[i] \in json_ws THEN skip_ws(t, i + 1) ELSE i

RECURSIVE digits_end(_, _)
digits_end(t, i) == IF i <= Len(t) /\ t[i] \in json_digit THEN digits_end(t, i + 1) ELSE i

RECURSIVE parse_value(_, _)
RECURSIVE parse_items(_, _, _)
\* the scanner at position i: '[' opens an array, a digit a number ('0'
\* is a number of its own), anything else is "Expecting value"
parse_value(t, i) ==
  IF i > Len(t) THEN json_fail
  ELSE IF t[i] = "["
       THEN LET j == skip_ws(t, i + 1)
            IN  IF j <= Len(t) /\ t[j] = "]" THEN json_ok(json_list(<<>>), j + 1)
                ELSE parse_items(t, j, <<>>)
  ELSE IF t[i] = "0" THEN json_ok(json_num(<<"0">>), i + 1)
  ELSE IF t[i] \in json_digit
       THEN LET e == digits_end(t, i) IN json_ok(json_num(SubSeq(t, i, e - 1)), e)
  ELSE json_fail

\* the elements of an array: a value, then ']' or ',' and the next value
parse_items(t, i, acc) ==
  LET r == parse_value(t, i)
  IN  IF ~r.ok THEN json_fail
      ELSE LET j == skip_ws(t, r.next)
           IN  IF j <= Len(t) /\ t[j] = "]"
               THEN json_ok(json_list(Append(acc, r.val)), j + 1)
               ELSE IF j <= Len(t) /\ t[j] = ","
               THEN parse_items(t, skip_ws(t, j + 1), Append(acc, r.val))
               ELSE json_fail

\* line 50: json.load; trailing non-blank text is "Extra data"
json_load(t) ==
  LET r == parse_value(t, skip_ws(t, 1))
  IN  IF r.ok /\ skip_ws(t, r.next) = Len(t) + 1 THEN r ELSE json_fail

spaces(n) == [k \in 1..n |-> " "]
newline_indent(level) == <<"\n">> \o spaces(JSON_INDENT * level)

RECURSIVE json_dump(_, _)
RECURSIVE dump_items(_, _)
\* line 58: json.dump(data, f, indent=2)
json_dump(v, level) ==
  IF v.k = "num" THEN v.lit
  ELSE IF v.items = <<>> THEN <<"[", "]">>
  ELSE <<"[">> \o newline_indent(level + 1) \o dump_items(v.items, level + 1)
       \o newline_indent(level) \o <<"]">>

dump_items(xs, level) ==
  IF Len(xs) = 1 THEN json_dump(xs[1], level)
  ELSE json_dump(xs[1], level) \o <<",">> \o newline_indent(level)
       \o dump_items(Tail(xs), level)

(***************************************************************************)
(* The file system: a function from the paths of the regular files under   *)
(* 'products' to their text.                                               *)
(***************************************************************************)
\* open(path, 'a'): what a write in append mode would leave
append_file(fs, path, text) ==
  [q \in DOMAIN fs \cup {path} |->
     IF q = path THEN (IF path \in DOMAIN fs THEN fs[path] ELSE <<>>) \o text
     ELSE fs[q]]

\* lines 57-58, 89-90: open(path, 'w') and write: the file holds the text
write_file(fs, path, text) ==
  [q \in DOMAIN fs \cup {path} |-> IF q = path THEN text ELSE fs[q]]

(***************************************************************************)
(* prettify_json_file, lines 40-64.                                        *)
(***************************************************************************)
\* the input path itself as the output path
pretty_filename_inplace(filename) == filename

\* lines 53-54
pretty_filename(filename) ==
  path_join(dirname(filename),
            splitext(basename(filename))[1] \o pretty_suffix)

\* lines 47-64: the files after the call.  A missing file and a text that
\* does not parse raise inside the try and are caught: nothing is written.
prettify_json_file(fs, filename) ==
  IF filename \notin DOMAIN fs THEN fs
  ELSE LET data == json_load(fs[filename])
       IN  IF ~data.ok THEN fs
           ELSE write_file(fs, pretty_filename(filename), json_dump(data.val, 0))

(***************************************************************************)
(* The inputs: sitemap text nodes, sitemap documents, response bodies and  *)
(* the files found under 'products' when the program starts.               *)
(***************************************************************************)
URL_A == <<"h","t","t","p","s",":","/","/","f","u","t","u","r","e","s","f","i","n","s",".","c","o","m","/","p","r","o","d","u","c","t","s","/","a">>
URL_B == <<"h","t","t","p","s",":","/","/","f","u","t","u","r","e","s","f","i","n","s",".","c","o","m","/","p","r","o","d","u","c","t","s","/","b">>
\* a page of the same host that is no product
URL_PAGE == <<"h","t","t","p","s",":","/","/","f","u","t","u","r","e","s","f","i","n","s",".","c","o","m","/","p","a","g","e","s","/","a">>
\* text around another host's URL that the pattern's '.' also accepts
TEXT_C == <<"s","e","e"," ","h","t","t","p","s",":","/","/","f","u","t","u","r","e","s","f","i","n","s","X","c","o","m","/","p","r","o","d","u","c","t","s","/","c">>
\* a newline where the pattern's '.' stands: no match
TEXT_NL == <<"h","t","t","p","s",":","/","/","f","u","t","u","r","e","s","f","i","n","s","\n","c","o","m","/","p","r","o","d","u","c","t","s","/","a">>
\* the blank text between two elements
BLANK == <<"\n">>

\* the sitemap documents the remote serves and the cache may hold
SitemapDocs ==
  { <<>>,
    <<URL_A, URL_PAGE, URL_B>>,
    <<URL_B, BLANK, URL_B>>,
    <<BLANK, URL_PAGE>> }

JSON_GOOD == <<"[", "1", ",", " ", "[", "2", "]", "]">>
JSON_BAD == <<"[", "1", ",">>
JSON_PRETTY_OLD == <<"[", "]">>

\* the bodies a product endpoint answers with
Bodies == {JSON_GOOD, JSON_BAD}

name_a_json == <<"a">> \o dot_json
name_b_json == <<"b">> \o dot_json
name_a_pretty == <<"a">> \o pretty_suffix
name_notes == <<"n", ".", "t", "x", "t">>

NoFiles == [q \in {} |-> <<>>]

\* the states of 'products' the program may find: missing, a regular file,
\* a directory without 'pretty', and directories with 'pretty' in them
InitialTrees ==
  { [kind |-> "absent", pretty |-> FALSE, files |-> NoFiles],
    [kind |-> "file", pretty |-> FALSE, files |-> NoFiles],
    [kind |-> "dir", pretty |-> FALSE,
     files |-> write_file(NoFiles, products_prefix \o name_a_json, JSON_GOOD)],
    [kind |-> "dir", pretty |-> TRUE, files |-> NoFiles],
    [kind |-> "dir", pretty |-> TRUE,
     files |-> write_file(
                 write_file(
                   write_file(
                     write_file(NoFiles, products_dir \o name_a_json, JSON_GOOD),
                     products_dir \o name_a_pretty, JSON_PRETTY_OLD),
                   products_dir \o name_b_json, JSON_BAD),
                 products_dir \o name_notes, JSON_GOOD)] }

\* the number of runs of the program a behaviour holds
MaxRuns == 2

(***************************************************************************)
(* The state.                                                              *)
(***************************************************************************)
VARIABLES
  pc,              \* where the run stands: "idle" before the first run, the
                   \* function about to be called, "done", or "crashed"
  fetch_products,  \* args.fetch_products, line 125
  content,         \* fetch_and_parse_sitemap's content, line 107
  urls,            \* the extracted list, lines 117, 130
  idx,             \* the position of the loop of line 136 in urls
  todo,            \* the names of os.listdir that the loop of line 143 has
                   \* not reached yet
  cacheExists,     \* os.path.exists('product_sitemap.xml')
  cacheBytes,      \* the bytes of 'product_sitemap.xml'
  productsKind,    \* 'products': "absent", "dir" or (a regular) "file"
  prettyDir,       \* os.path.exists('products/pretty/')
  files,           \* the regular files under 'products', path |-> text
  remote,          \* the document the sitemap URL serves now
  runs,            \* the runs started so far
  hadCache,        \* this run: the cache file existed when the run began
  sitemapGets,     \* this run: GET requests of the sitemap URL
  sitemapResp,     \* this run: "none", or the outcome of that GET
  saves,           \* this run: writes of the cache file
  attempted,       \* this run: the URLs fetch_product_json was called with
  productGets,     \* this run: the JSON URLs requested, in order
  fetchWrote,      \* this run: the paths fetch_product_json wrote
  prettified,      \* this run: the paths prettify_json_file was called with
  halted,          \* this run: the function whose exception ended it
  stored,          \* the bytes the cache file was created with
  storedRun,       \* the run that created the cache file (0: before any)
  calls            \* the calls of prettify_json_file made one by one, each
                   \* with the files before and after it

fsVars == <<cacheExists, cacheBytes, productsKind, prettyDir, files>>
runVars == <<pc, fetch_products, content, urls, idx, todo>>
histVars == <<hadCache, sitemapGets, sitemapResp, saves, attempted,
              productGets, fetchWrote, prettified, halted>>
mainVars == <<runVars, fsVars, histVars, remote, runs, stored, storedRun, calls>>

(***************************************************************************)
(* The network.                                                            *)
(***************************************************************************)
\* what requests.get followed by raise_for_status comes to: an exception
\* (a transport failure, a timeout, a status of 400 or more) or a body
ProductResponses ==
  {[ok |-> FALSE, text |-> <<>>]} \cup {[ok |-> TRUE, text |-> b] : b \in Bodies}

(***************************************************************************)
(* One run of the program, lines 121-146.                                  *)
(***************************************************************************)
BetweenRuns == pc \in {"idle", "done", "crashed"}

\* lines 122-128: a new process, with or without --fetch-products
main ==
  /\ BetweenRuns
  /\ runs < MaxRuns
  /\ \E flag \in BOOLEAN : fetch_products' = flag
  /\ pc' = "fetch_sitemap"
  /\ runs' = runs + 1
  /\ content' = <<>>
  /\ urls' = <<>>
  /\ idx' = 1
  /\ todo' = {}
  /\ hadCache' = cacheExists
  /\ sitemapGets' = 0
  /\ sitemapResp' = "none"
  /\ saves' = 0
  /\ attempted' = <<>>
  /\ productGets' = <<>>
  /\ fetchWrote' = {}
  /\ prettified' = {}
  /\ halted' = "none"
  /\ UNCHANGED <<calls, fsVars, remote, stored, storedRun>>

\* fetch_sitemap with the test of line 19 left out: always a GET
fetch_sitemap_always_get ==
  /\ pc = "fetch_sitemap"
  /\ sitemapGets' = sitemapGets + 1
  /\ \/ /\ sitemapResp' = "ok"
        /\ content' = remote
        /\ pc' = "save_sitemap"
        /\ UNCHANGED halted
     \/ /\ sitemapResp' = "fail"
        /\ pc' = "crashed"
        /\ halted' = "fetch_sitemap"
        /\ UNCHANGED content
  /\ UNCHANGED <<calls, fetch_products, urls, idx, todo, fsVars, remote, runs, stored,
                 storedRun, hadCache, saves, attempted, productGets, fetchWrote,
                 prettified>>

\* fetch_sitemap with line 26 left out: a failed GET returns its body
fetch_sitemap_no_raise ==
  /\ pc = "fetch_sitemap"
  /\ \/ /\ cacheExists
        /\ content' = cacheBytes
        /\ UNCHANGED <<sitemapGets, sitemapResp>>
     \/ /\ ~cacheExists
        /\ sitemapGets' = sitemapGets + 1
        /\ \/ sitemapResp' = "ok" /\ content' = remote
           \/ sitemapResp' = "fail" /\ content' = <<>>
  /\ pc' = "save_sitemap"
  /\ UNCHANGED <<calls, fetch_products, urls, idx, todo, fsVars, remote, runs, stored,
                 storedRun, hadCache, saves, attempted, productGets, fetchWrote,
                 prettified, halted>>

\* fetch_sitemap that asks the remote for a fresher document when the
\* cache file exists, and falls back to the file when the GET fails
fetch_sitemap_revalidate ==
  /\ pc = "fetch_sitemap"
  /\ sitemapGets' = sitemapGets + 1
  /\ \/ /\ sitemapResp' = "ok"
        /\ content' = remote
        /\ pc' = "save_sitemap"
        /\ UNCHANGED halted
     \/ /\ sitemapResp' = "fail"
        /\ cacheExists
        /\ content' = cacheBytes
        /\ pc' = "save_sitemap"
        /\ UNCHANGED halted
     \/ /\ sitemapResp' = "fail"
        /\ ~cacheExists
        /\ pc' = "crashed"
        /\ halted' = "fetch_sitemap"
        /\ UNCHANGED content
  /\ UNCHANGED <<calls, fetch_products, urls, idx, todo, fsVars, remote, runs, stored,
                 storedRun, hadCache, saves, attempted, productGets, fetchWrote,
                 prettified>>

\* lines 19-27: the file's bytes when it exists; otherwise one GET, whose
\* failure (requests.get or raise_for_status raising) nothing catches
fetch_sitemap ==
  /\ pc = "fetch_sitemap"
  /\ \/ /\ cacheExists
        /\ content' = cacheBytes
        /\ pc' = "save_sitemap"
        /\ UNCHANGED <<sitemapGets, sitemapResp, halted>>
     \/ /\ ~cacheExists
        /\ sitemapGets' = sitemapGets + 1
        /\ \/ /\ sitemapResp' = "ok"
              /\ content' = remote
              /\ pc' = "save_sitemap"
              /\ UNCHANGED halted
           \/ /\ sitemapResp' = "fail"
              /\ pc' = "crashed"
              /\ halted' = "fetch_sitemap"
              /\ UNCHANGED content
  /\ UNCHANGED <<calls, fetch_products, urls, idx, todo, fsVars, remote, runs, stored,
                 storedRun, hadCache, saves, attempted, productGets, fetchWrote,
                 prettified>>

\* lines 37-38, called at line 110 whether or not the file exists:
\* open(filename, 'wb') and write
save_sitemap ==
  /\ pc = "save_sitemap"
  /\ cacheExists' = TRUE
  /\ cacheBytes' = content
  /\ saves' = saves + 1
  /\ stored' = IF cacheExists THEN stored ELSE content
  /\ storedRun' = IF cacheExists THEN storedRun ELSE runs
  /\ pc' = "parse"
  /\ UNCHANGED <<calls, fetch_products, content, urls, idx, todo, productsKind,
                 prettyDir, files, remote, runs, hadCache, sitemapGets,
                 sitemapResp, attempted, productGets, fetchWrote, prettified,
                 halted>>

\* lines 113-119 and 130-136: the URLs, then the loop over them when
\* --fetch-products was given
parse_sitemap ==
  /\ pc = "parse"
  /\ urls' = extract_urls(content)
  /\ idx' = 1
  /\ pc' = IF fetch_products /\ urls' # <<>> THEN "products" ELSE "scan"
  /\ UNCHANGED <<calls, fetch_products, content, todo, fsVars, histVars, remote, runs,
                 stored, storedRun>>

\* os.makedirs('products', exist_ok=True), line 74: FileExistsError when
\* 'products' is a regular file
makedirs_raises == productsKind = "file"

\* lines 74-94, one call of the loop of lines 136-137.  Line 74 stands
\* before the try, and the except of line 93 names requests.RequestException
\* only: the exception of makedirs ends the run.
fetch_product_json ==
  /\ pc = "products"
  /\ LET product_url == urls[idx]
         product_name == last_segment(product_url)
         json_url == product_url \o dot_json
         path == products_prefix \o product_name \o dot_json
     IN  /\ attempted' = Append(attempted, product_url)
         /\ \/ /\ makedirs_raises
               /\ pc' = "crashed"
               /\ halted' = "fetch_product_json"
               /\ UNCHANGED <<idx, productsKind, files, productGets, fetchWrote>>
            \/ /\ ~makedirs_raises
               /\ productsKind' = "dir"
               /\ productGets' = Append(productGets, json_url)
               /\ \E resp \in ProductResponses :
                    IF resp.ok
                    THEN /\ files' = write_file(files, path, resp.text)
                         /\ fetchWrote' = fetchWrote \cup {path}
                    ELSE UNCHANGED <<files, fetchWrote>>
               /\ idx' = idx + 1
               /\ pc' = IF idx + 1 > Len(urls) THEN "scan" ELSE "products"
               /\ UNCHANGED halted
  /\ UNCHANGED <<calls, fetch_products, content, urls, todo, cacheExists, cacheBytes,
                 prettyDir, remote, runs, stored, storedRun, hadCache,
                 sitemapGets, sitemapResp, saves, prettified>>

\* os.path.exists of a directory of the tree
dir_exists(d) ==
  IF d = products_prefix THEN productsKind = "dir"
  ELSE IF d = products_prefix \o <<"p","r","e","t","t","y","/">> THEN prettyDir
  ELSE FALSE

\* the first component of a relative path
first_segment(s) ==
  LET hits == {i \in 1..Len(s) : s[i] = "/"}
  IN  IF hits = {} THEN s
      ELSE SubSeq(s, 1, (CHOOSE i \in hits : \A j \in hits : i <= j) - 1)

\* os.listdir(d), d ending in '/': the names directly inside d
listdir(d) ==
  {first_segment(Drop(q, Len(d) + 1)) : q \in {r \in DOMAIN files : startswith(r, d)}}
  \cup (IF d = products_prefix /\ prettyDir THEN {<<"p","r","e","t","t","y">>} ELSE {})

\* lines 141-144: the names the loop of line 143 will hand to
\* prettify_json_file
prettify_scan ==
  /\ pc = "scan"
  /\ todo' = IF dir_exists(products_dir)
             THEN {filename \in listdir(products_dir) :
                     endswith(filename, dot_json) /\ ~endswith(filename, pretty_suffix)}
             ELSE {}
  /\ pc' = IF todo' = {} THEN "done" ELSE "prettify"
  /\ UNCHANGED <<calls, fetch_products, content, urls, idx, fsVars, histVars, remote,
                 runs, stored, storedRun>>

\* lines 145-146, one turn of the loop of line 143 (os.listdir gives the
\* names in no particular order)
prettify_loop ==
  /\ pc = "prettify"
  /\ \E filename \in todo :
       LET full_path == path_join(products_dir, filename)
       IN  /\ files' = prettify_json_file(files, full_path)
           /\ prettified' = prettified \cup {full_path}
           /\ todo' = todo \ {filename}
  /\ pc' = IF todo' = {} THEN "done" ELSE "prettify"
  /\ UNCHANGED <<calls, fetch_products, content, urls, idx, cacheExists, cacheBytes,
                 productsKind, prettyDir, remote, runs, stored, storedRun,
                 hadCache, sitemapGets, sitemapResp, saves, attempted,
                 productGets, fetchWrote, halted>>

(***************************************************************************)
(* What happens between two runs, outside the program.                     *)
(***************************************************************************)
\* the storefront publishes another sitemap (the URL of line 128)
remote_changes ==
  /\ BetweenRuns
  /\ runs < MaxRuns
  /\ remote' \in SitemapDocs \ {remote}
  /\ UNCHANGED <<calls, runVars, fsVars, histVars, runs, stored, storedRun>>

\* the user deletes 'product_sitemap.xml' (the file tested at line 19)
cache_deleted ==
  /\ BetweenRuns
  /\ runs < MaxRuns
  /\ cacheExists
  /\ cacheExists' = FALSE
  /\ cacheBytes' = <<>>
  /\ stored' = <<>>
  /\ storedRun' = 0
  /\ UNCHANGED <<calls, runVars, productsKind, prettyDir, files, histVars, remote, runs>>

\* the user copies a fetched file from 'products' into 'products/pretty'
\* (the directory line 141 names), making the directory if need be
copied_to_pretty ==
  /\ BetweenRuns
  /\ runs < MaxRuns
  /\ productsKind = "dir"
  /\ \E q \in DOMAIN files :
       /\ startswith(q, products_prefix)
       /\ ~startswith(q, products_dir)
       /\ products_dir \o basename(q) \notin DOMAIN files
       /\ files' = write_file(files, products_dir \o basename(q), files[q])
  /\ prettyDir' = TRUE
  /\ UNCHANGED <<calls, runVars, cacheExists, cacheBytes, productsKind, histVars,
                 remote, runs, stored, storedRun>>

(***************************************************************************)
(* The program, run up to MaxRuns times.                                   *)
(***************************************************************************)
HistInit ==
  /\ hadCache = FALSE
  /\ sitemapGets = 0
  /\ sitemapResp = "none"
  /\ saves = 0
  /\ attempted = <<>>
  /\ productGets = <<>>
  /\ fetchWrote = {}
  /\ prettified = {}
  /\ halted = "none"

Init ==
  /\ pc = "idle"
  /\ fetch_products = FALSE
  /\ content = <<>>
  /\ urls = <<>>
  /\ idx = 1
  /\ todo = {}
  /\ \/ cacheExists = FALSE /\ cacheBytes = <<>>
     \/ cacheExists = TRUE /\ cacheBytes \in SitemapDocs
  /\ \E t \in InitialTrees :
       /\ productsKind = t.kind
       /\ prettyDir = t.pretty
       /\ files = t.files
  /\ remote \in SitemapDocs
  /\ runs = 0
  /\ stored = cacheBytes
  /\ storedRun = 0
  /\ calls = <<>>
  /\ HistInit

Next ==
  \/ main
  \/ fetch_sitemap
  \/ save_sitemap
  \/ parse_sitemap
  \/ fetch_product_json
  \/ prettify_scan
  \/ prettify_loop
  \/ remote_changes
  \/ cache_deleted
  \/ copied_to_pretty

vars == mainVars

Spec == Init /\ [][Next]_vars

(***************************************************************************)
(* Properties of a run.                                                    *)
(***************************************************************************)
InRun == runs >= 1

\* the run has extracted its URLs
Parsed ==
  \/ pc \in {"products", "scan", "prettify", "done"}
  \/ pc = "crashed" /\ halted = "fetch_product_json"

\* the loop of lines 136-137 is behind the run, or was skipped
FetchStageOver ==
  \/ pc \in {"scan", "prettify", "done"}
  \/ pc = "crashed" /\ halted = "fetch_product_json"

IsPrefix(a, b) == Len(a) <= Len(b) /\ SubSeq(b, 1, Len(a)) = a

\* path names a file directly inside the directory d (d ends in '/')
DirectlyIn(path, d) ==
  /\ startswith(path, d)
  /\ Len(path) > Len(d)
  /\ \A k \in (Len(d) + 1)..Len(path) : path[k] # "/"

\* the names of line 144 that 'products/pretty/' holds
Prettifiable ==
  {q \in DOMAIN files :
     /\ DirectlyIn(q, <<"p","r","o","d","u","c","t","s","/","p","r","e","t","t","y","/">>)
     /\ endswith(q, dot_json)
     /\ ~endswith(q, pretty_suffix)}

\* C1: in a run that found the cache file, fetch_sitemap returns exactly
\* the file's bytes, and the run issues no GET of the sitemap URL and so
\* cannot fail on one.
C1_CacheHitNoNetwork ==
  (InRun /\ hadCache) =>
    /\ sitemapGets = 0
    /\ sitemapResp = "none"
    /\ halted # "fetch_sitemap"
    /\ pc = "save_sitemap" => content = cacheBytes

\* fetch_sitemap has returned the bytes of a cache file that differ from
\* what the remote serves
C1_Witness ==
  /\ pc = "save_sitemap"
  /\ hadCache
  /\ content = cacheBytes
  /\ content # <<>>
  /\ content # remote

\* C2: when the cache file is absent and the GET of the sitemap fails, the
\* run halts there: one GET and no second, no cache file, no URL extracted, no
\* product requested or written, nothing prettified.
C2_SitemapFailureIsFatal ==
  (~hadCache /\ sitemapResp = "fail") =>
    /\ pc = "crashed"
    /\ halted = "fetch_sitemap"
    /\ sitemapGets = 1
    /\ ~cacheExists
    /\ saves = 0
    /\ urls = <<>>
    /\ attempted = <<>>
    /\ productGets = <<>>
    /\ fetchWrote = {}
    /\ prettified = {}

\* the GET failed in a run with --fetch-products, with URLs in the remote
\* document and files waiting in 'products/pretty/'
C2_Witness ==
  /\ sitemapResp = "fail"
  /\ pc = "crashed"
  /\ fetch_products
  /\ extract_urls(remote) # <<>>
  /\ prettyDir
  /\ Prettifiable # {}

\* C3: in a run with --fetch-products, fetch_product_json never ends the
\* run: the URLs are attempted one by one in list order, each once, and
\* after the last the run goes on to the prettify stage.
C3_FetchNeverAborts ==
  (fetch_products /\ Parsed) =>
    /\ IsPrefix(attempted, urls)
    /\ pc # "products" => (attempted = urls /\ pc \in {"scan", "prettify", "done"})

\* C4: without --fetch-products no product JSON is requested and the fetch
\* stage writes no file; with it, one request is issued per extracted URL.
C4_FlagGatesFetching ==
  /\ (InRun /\ ~fetch_products) =>
       (attempted = <<>> /\ productGets = <<>> /\ fetchWrote = {})
  /\ (fetch_products /\ FetchStageOver) =>
       productGets = [k \in 1..Len(urls) |-> urls[k] \o dot_json]

\* C8: the cache file is saved only if it did not exist: written once,
\* before the URLs are extracted, in a run that found none and fetched one;
\* not written at all in a run that found it.
C8_SavedOnlyWhenAbsent ==
  InRun =>
    /\ hadCache => saves = 0
    /\ (~hadCache /\ (pc = "parse" \/ Parsed)) => saves = 1
    /\ saves <= 1

\* C9: while the cache file is not deleted it keeps the bytes it was
\* created with, and every run after the one that created it issues no GET
\* of the sitemap and extracts the URLs of those bytes, whatever the remote
\* serves by then.
C9_CacheIsAuthoritative ==
  /\ cacheExists => cacheBytes = stored
  /\ (cacheExists /\ runs > storedRun) =>
       /\ sitemapGets = 0
       /\ Parsed => urls = extract_urls(stored)

\* a run after the one that created the cache file has finished with the
\* URLs of the stored bytes, while the remote serves other URLs
C9_Witness ==
  /\ storedRun >= 1
  /\ runs > storedRun
  /\ cacheExists
  /\ pc = "done"
  /\ urls = extract_urls(stored)
  /\ urls # extract_urls(remote)

MaxEntries == 3

TextNodes == {URL_A, URL_B, URL_PAGE, TEXT_C, TEXT_NL, BLANK}

Documents == UNION {[1..n -> TextNodes] : n \in 0..MaxEntries}

InitExtract ==
  /\ pc = "parse"
  /\ fetch_products \in BOOLEAN
  /\ content \in Documents
  /\ urls = <<>>
  /\ idx = 1
  /\ todo = {}
  /\ cacheExists = TRUE
  /\ cacheBytes = content
  /\ productsKind = "absent"
  /\ prettyDir = FALSE
  /\ files = NoFiles
  /\ remote = content
  /\ runs = 1
  /\ stored = content
  /\ storedRun = 1
  /\ calls = <<>>
  /\ HistInit

NextExtract == parse_sitemap

SpecExtract == InitExtract /\ [][NextExtract]_vars

\* the text holds 'https://futuresfins', one character that is no newline,
\* and 'com/products/', in a row
IsProductText(t) ==
  LET a == <<"h","t","t","p","s",":","/","/","f","u","t","u","r","e","s","f","i","n","s">>
      b == <<"c","o","m","/","p","r","o","d","u","c","t","s","/">>
  IN  \E i \in 1..Len(t) :
        /\ i + Len(a) + Len(b) <= Len(t)
        /\ SubSeq(t, i, i + Len(a) - 1) = a
        /\ t[i + Len(a)] # "\n"
        /\ SubSeq(t, i + Len(a) + 1, i + Len(a) + Len(b)) = b

\* the places of the matching text nodes of a document
Matching(d) == {i \in 1..Len(d) : IsProductText(d[i])}

\* the k-th smallest member of a set of numbers
Kth(S, k) == CHOOSE i \in S : Cardinality({j \in S : j <= i}) = k

MaxCalls == 3

path_a == products_prefix \o <<"p","r","e","t","t","y","/">> \o name_a_json
path_a_pretty == products_prefix \o <<"p","r","e","t","t","y","/">> \o name_a_pretty
path_notes == products_prefix \o <<"p","r","e","t","t","y","/">> \o name_notes
path_missing == products_prefix \o <<"p","r","e","t","t","y","/">> \o name_b_json
\* a file of the working directory
path_cwd == name_a_json
\* a name that is an extension only
path_dot == products_prefix \o dot_json

PrettyInputs == {path_a, path_a_pretty, path_notes, path_missing, path_cwd, path_dot}

PrettyTrees ==
  { write_file(NoFiles, path_a, JSON_GOOD),
    write_file(write_file(NoFiles, path_a, JSON_GOOD), path_a_pretty, JSON_PRETTY_OLD),
    write_file(write_file(NoFiles, path_a, JSON_BAD), path_a_pretty, JSON_PRETTY_OLD),
    write_file(write_file(NoFiles, path_notes, JSON_GOOD), path_cwd, JSON_PRETTY_OLD),
    write_file(write_file(NoFiles, path_dot, JSON_GOOD), path_cwd, JSON_BAD),
    write_file(NoFiles, path_a_pretty, json_dump(json_load(JSON_GOOD).val, 0)) }

InitPretty ==
  /\ pc = "idle"
  /\ fetch_products = FALSE
  /\ content = <<>>
  /\ urls = <<>>
  /\ idx = 1
  /\ todo = {}
  /\ cacheExists = FALSE
  /\ cacheBytes = <<>>
  /\ productsKind = "dir"
  /\ prettyDir = TRUE
  /\ files \in PrettyTrees
  /\ remote = <<>>
  /\ runs = 0
  /\ stored = <<>>
  /\ storedRun = 0
  /\ calls = <<>>
  /\ HistInit

\* lines 40-64: one call
prettify_call ==
  /\ Len(calls) < MaxCalls
  /\ \E filename \in PrettyInputs :
       /\ files' = prettify_json_file(files, filename)
       /\ calls' = Append(calls, [op |-> "prettify", filename |-> filename,
                                  before |-> files, after |-> files'])
  /\ UNCHANGED <<runVars, cacheExists, cacheBytes, productsKind, prettyDir,
                 histVars, remote, runs, stored, storedRun>>

\* the user rewrites a file that prettify_json_file reads (line 49)
file_edited ==
  /\ Len(calls) < MaxCalls
  /\ \E filename \in DOMAIN files \cap {path_a, path_notes} :
       \E text \in Bodies \ {files[filename]} :
         /\ files' = write_file(files, filename, text)
         /\ calls' = Append(calls, [op |-> "edit", filename |-> filename,
                                    before |-> files, after |-> files'])
  /\ UNCHANGED <<runVars, cacheExists, cacheBytes, productsKind, prettyDir,
                 histVars, remote, runs, stored, storedRun>>

NextPretty ==
  \/ prettify_call
  \/ file_edited

SpecPretty == InitPretty /\ [][NextPretty]_vars

PrettifyCalls == {i \in 1..Len(calls) : calls[i].op = "prettify"}

\* the paths whose file a call created or changed
Written(c) ==
  {q \in DOMAIN c.after : q \notin DOMAIN c.before \/ c.after[q] # c.before[q]}

\* the last '/' of a path and what stands before it
DirPart(path) == SubSeq(path, 1, rfind(path, "/"))

\* C6: prettify_json_file neither changes nor deletes the file it is given,
\* whether the parse succeeds or fails: nothing disappears, and the one
\* file it may write is another path of the same directory, named after the
\* input with '-pretty.json' at its end ('x.json' gives 'x-pretty.json').
C6_OriginalUntouched ==
  \A i \in PrettifyCalls :
    LET c == calls[i]
        f == c.filename
    IN  /\ DOMAIN c.before \subseteq DOMAIN c.after
        /\ f \in DOMAIN c.before => c.after[f] = c.before[f]
        /\ Cardinality(Written(c)) <= 1
        /\ \A q \in Written(c) :
             /\ q # f
             /\ DirPart(q) = DirPart(f)
             /\ endswith(q, pretty_suffix)
             /\ (endswith(f, dot_json) /\ Len(basename(f)) > Len(dot_json)) =>
                  q = SubSeq(f, 1, Len(f) - Len(dot_json)) \o pretty_suffix

\* one call has parsed its file and written the pretty file, another has
\* failed to parse a file that exists
C6_Witness ==
  /\ \E i \in PrettifyCalls :
       /\ calls[i].filename \in DOMAIN calls[i].before
       /\ Written(calls[i]) # {}
  /\ \E j \in PrettifyCalls :
       /\ calls[j].filename \in DOMAIN calls[j].before
       /\ ~json_load(calls[j].before[calls[j].filename]).ok
       /\ Written(calls[j]) = {}

\* C7: a second call of prettify_json_file on the same path, the source
\* unchanged since the first, leaves the files, the '-pretty' file among
\* them, as the first call left them.
C7_PrettifyIdempotent ==
  \A i \in PrettifyCalls :
    (/\ i + 1 \in PrettifyCalls
     /\ calls[i + 1].filename = calls[i].filename) =>
      calls[i + 1].after = calls[i].after

\* a call has replaced an older '-pretty' file, and the same call again has
\* left the files as they were
C7_Witness ==
  \E i \in PrettifyCalls :
    /\ i + 1 \in PrettifyCalls
    /\ calls[i + 1].filename = calls[i].filename
    /\ \E q \in Written(calls[i]) : q \in DOMAIN calls[i].before
    /\ calls[i + 1].after = calls[i].after

====
